---------------------------- MODULE Spec2Model ----------------------------
(***************************************************************************)
(* The drawing widget of src/app.js as a state machine.                    *)
(*                                                                         *)
(* The canvas is one row of W pixels in logical (CSS) coordinates; a       *)
(* pointer position is the pixel under the pointer.  A pixel is "clear"    *)
(* (transparent), "white" or one of the brush colours.  Every handler of   *)
(* app.js is one action; the image loads started by undo() and             *)
(* setCanvasSize() complete in a step of their own (ImgLoad).              *)
(*                                                                         *)
(* ctx.lineWidth, ctx.strokeStyle and ctx.fillStyle are written by the     *)
(* code right before each use and never read otherwise, so they are        *)
(* arguments of stroke/fillRect here, not state.  The canvas is stretched  *)
(* to its new size by a resize, so positions are relative to its width and *)
(* a resize leaves them as they are.                                       *)
(***************************************************************************)
EXTENDS Integers, Sequences, FiniteSets, TLC

\* ---------------------------------------------------------------- bounds
W == 3
MaxPath == 3
MaxPending == 2
MaxEvents == 5
MaxSession == 8
MaxStrokes == 25
MaxFair == 6
MaxTime == 600

\* ------------------------------------------------------ program constants
UNDO_MAX == 20
RESIZE_DELAY == 150

Pixels == 1 .. W
Colors == {"black", "red"}
Sizes == {1, 3}
Keys == {"z", "c", "e", "p", "s", "x"}

VARIABLES
    inited,       \* initCanvas has run (requestAnimationFrame callback, line 180)
    drawing,      \* let drawing
    last,         \* let last (0 = the initial {x: 0, y: 0})
    tool,         \* let tool
    brushColor,   \* let brushColor
    brushSize,    \* let brushSize
    undoStack,    \* const undoStack: data URLs, oldest first
    resizeTimer,  \* let resizeTimer: a timeout is armed
    bitmap,       \* the canvas's pixels
    ctx,          \* the 2d context's drawing state and current path
    pending,      \* Image objects whose src is set and whose onload has not run
    download,     \* the href of the last download link clicked ("none": none yet)
    \* history variables (not read by any handler)
    ev,           \* the last event processed
    thrown,       \* toDataURL threw in the last event
    prompt,       \* the answer to confirm() in the last event ("none": not asked)
    clock,        \* events processed
    phase,        \* "strokes": only whole strokes since init; "undoing"/"undos": then only undos
    after,        \* in those phases: the bitmap after init and after each completed stroke
    nUndos,       \* in those phases: undo calls that popped
    hist,         \* the snapshots pushed and not popped, never evicted
    clr,          \* <<stage, bitmap, undoStack>>: 1 clear ran, 2 then undo, 3 then its load
    \* time (it passes in SpecResize only)
    now,          \* the time in ms
    due,          \* when the armed timeout is due (0 when none is armed)
    lastResize,   \* history: when the last resize event arrived (-1: none yet)
    burstLen,     \* history: resize events in the burst the last one belongs to
    bursts,       \* history: bursts of resize events begun
    runs          \* history: calls of setCanvasSize

progVars == <<inited, drawing, last, tool, brushColor, brushSize, undoStack,
              resizeTimer, bitmap, ctx, pending, download>>
histVars == <<ev, thrown, prompt, clock, phase, after, nUndos, hist, clr>>
timeVars == <<now, due, lastResize, burstLen, bursts, runs>>
vars == <<progVars, histVars, timeVars>>

\* ------------------------------------------------------------- the canvas
Min(a, b) == IF a < b THEN a ELSE b
Max(a, b) == IF a > b THEN a ELSE b

Blank == [x \in Pixels |-> "clear"]

\* The context's default state: what getContext returns and what assigning
\* canvas.width resets it to.
DefaultCtx ==
    [globalCompositeOperation |-> "source-over", lineCap |-> "butt",
     lineJoin |-> "miter", scaled |-> FALSE, path |-> <<>>]

\* canvas.toDataURL('image/png') and its decoding by an Image.
toDataURL(bm) == <<"data:image/png", bm>>
decode(url) == url[2]

\* One pixel of source s composited onto destination d.
Composite(gco, d, s) ==
    IF s = "clear" THEN d
    ELSE IF gco = "destination-out" THEN "clear"
    ELSE s

fillRect(c, bm, style) ==
    [x \in Pixels |-> Composite(c.globalCompositeOperation, bm[x], style)]

clearRect(bm) == Blank

drawImage(c, bm, img) ==
    [x \in Pixels |-> Composite(c.globalCompositeOperation, bm[x], img[x])]

RECURSIVE SeqMin(_), SeqMax(_)
SeqMin(s) == IF Len(s) = 1 THEN s[1] ELSE Min(s[1], SeqMin(Tail(s)))
SeqMax(s) == IF Len(s) = 1 THEN s[1] ELSE Max(s[1], SeqMax(Tail(s)))

\* The pixels a line of the given width covers between a and b: a round cap
\* reaches lineWidth/2 beyond each end, a butt cap does not.
Covered(a, b, lineWidth, lineCap) ==
    LET r == IF lineCap = "round" THEN lineWidth \div 2 ELSE 0
    IN  {x \in Pixels : Min(a, b) - r <= x /\ x <= Max(a, b) + r}

\* ctx.stroke(): strokes the whole current path, every segment of it.  A path
\* of one point paints nothing; one of zero length paints its round caps only.
StrokePixels(c, lineWidth) ==
    IF Len(c.path) < 2 THEN {}
    ELSE IF SeqMin(c.path) = SeqMax(c.path) /\ c.lineCap # "round" THEN {}
    ELSE Covered(SeqMin(c.path), SeqMax(c.path), lineWidth, c.lineCap)

stroke(c, bm, lineWidth, style) ==
    [x \in Pixels |->
        IF x \in StrokePixels(c, lineWidth)
        THEN Composite(c.globalCompositeOperation, bm[x], style)
        ELSE bm[x]]

\* ---------------------------------------------------------- the undo stack
\* Mutants of Push: no eviction; the newest evicted instead of the oldest.
PushNoEvict(stack, data) == Append(stack, data)

PushEvictNewest(stack, data) ==
    LET s == Append(stack, data)
    IN  IF Len(s) > UNDO_MAX THEN SubSeq(s, 1, Len(s) - 1) ELSE s

Push(stack, data) ==
    LET s == Append(stack, data)
    IN  IF Len(s) > UNDO_MAX THEN Tail(s) ELSE s

\* saveState(): ok is whether canvas.toDataURL returned (it threw otherwise).
saveState(stack, bm, ok) == IF ok THEN Push(stack, toDataURL(bm)) ELSE stack

\* Mutant of UndoIsNoop: the guard off by one.
UndoIsNoopOffByOne(stack) == Len(stack) < 1

\* if (undoStack.length <= 1) return;
UndoIsNoop(stack) == Len(stack) <= 1

Pop(stack) == SubSeq(stack, 1, Len(stack) - 1)

\* undoStack[undoStack.length - 1]
Top(stack) == IF Len(stack) = 0 THEN "undefined" ELSE stack[Len(stack)]


\* pushIfNeeded(): its body is two comments.
pushIfNeeded(stack, bm) == stack

\* ctx.closePath(): a line back to the subpath's first point.
closePath(path) == IF Len(path) >= 2 THEN Append(path, path[1]) ELSE path

RemoveAt(s, i) == SubSeq(s, 1, i - 1) \o SubSeq(s, i + 1, Len(s))

\* ------------------------------------------------------ history variables
NoClr == <<0, Blank, <<>>>>
PhaseOff == phase' = "off" /\ after' = <<>> /\ nUndos' = 0
PhaseKeep == UNCHANGED <<phase, after, nUndos>>
Note(e, t, p) == ev' = e /\ thrown' = t /\ prompt' = p

\* ------------------------------------------------------------------ Init
Init ==
    /\ inited = FALSE
    /\ drawing = FALSE
    /\ last = 0
    /\ tool = "pen"
    /\ brushColor \in Colors
    /\ brushSize \in Sizes
    /\ undoStack = <<>>
    /\ resizeTimer = FALSE
    /\ bitmap = Blank
    /\ ctx = DefaultCtx
    /\ pending = <<>>
    /\ download = "none"
    /\ ev = "load script"
    /\ thrown = FALSE
    /\ prompt = "none"
    /\ clock = 0
    /\ phase = "off"
    /\ after = <<>>
    /\ nUndos = 0
    /\ hist = <<>>
    /\ clr = NoClr
    /\ now = 0
    /\ due = 0
    /\ lastResize = -1
    /\ burstLen = 0
    /\ bursts = 0
    /\ runs = 0

\* ------------------------------------------------------------ initCanvas
InitCanvas(ok) ==
    LET c  == [DefaultCtx EXCEPT !.scaled = TRUE, !.lineCap = "round",
                                 !.lineJoin = "round"]
        bm == fillRect(c, Blank, "white")
    IN  /\ ~inited
        /\ inited' = TRUE
        /\ ctx' = c
        /\ bitmap' = bm
        /\ undoStack' = saveState(undoStack, bm, ok)
        /\ UNCHANGED <<drawing, last, tool, brushColor, brushSize, resizeTimer,
                       pending, download>>
        /\ Note("init", ~ok, "none")
        /\ hist' = IF ok THEN Append(hist, toDataURL(bm)) ELSE hist
        /\ IF ok THEN phase' = "strokes" /\ after' = <<bm>> /\ nUndos' = 0
                 ELSE PhaseOff
        /\ clr' = NoClr
        /\ UNCHANGED timeVars

\* ---------------------------------------------------------- startDrawing
StartDrawing(p) ==
    /\ drawing' = TRUE
    /\ last' = p
    /\ ctx' = [ctx EXCEPT !.path = <<p>>]
    /\ undoStack' = pushIfNeeded(undoStack, bitmap)
    /\ UNCHANGED <<inited, tool, brushColor, brushSize, resizeTimer, bitmap,
                   pending, download>>
    /\ Note("pointerdown", FALSE, "none")
    /\ hist' = hist
    /\ IF phase = "strokes" /\ ~drawing THEN PhaseKeep ELSE PhaseOff
    /\ clr' = NoClr
    /\ UNCHANGED timeVars

\* ------------------------------------------------------------------ draw
DrawCtx(c, t, p) ==
    [c EXCEPT !.globalCompositeOperation =
                  IF t = "eraser" THEN "destination-out" ELSE "source-over",
              !.path = Append(@, p)]

DrawStyle(t, color) == IF t = "eraser" THEN "black" ELSE color

\* Mutant of Draw: without "if (!drawing) return".
DrawUnguarded(p) ==
    /\ Len(ctx.path) < MaxPath
    /\ ctx' = DrawCtx(ctx, tool, p)
    /\ bitmap' = stroke(DrawCtx(ctx, tool, p), bitmap, brushSize,
                        DrawStyle(tool, brushColor))
    /\ last' = p
    /\ UNCHANGED <<inited, drawing, tool, brushColor, brushSize, undoStack,
                   resizeTimer, pending, download>>
    /\ Note("pointermove", FALSE, "none")
    /\ hist' = hist
    /\ PhaseKeep
    /\ clr' = NoClr
    /\ UNCHANGED timeVars

Draw(p) ==
    /\ drawing => Len(ctx.path) < MaxPath
    /\ IF ~drawing
       THEN UNCHANGED <<ctx, bitmap, last>>
       ELSE /\ ctx' = DrawCtx(ctx, tool, p)
            /\ bitmap' = stroke(DrawCtx(ctx, tool, p), bitmap, brushSize,
                                DrawStyle(tool, brushColor))
            /\ last' = p
    /\ UNCHANGED <<inited, drawing, tool, brushColor, brushSize, undoStack,
                   resizeTimer, pending, download>>
    /\ Note("pointermove", FALSE, "none")
    /\ hist' = hist
    /\ PhaseKeep
    /\ clr' = NoClr
    /\ UNCHANGED timeVars

\* ----------------------------------------------------------- stopDrawing
StopDrawing(e, ok) ==
    /\ IF ~drawing
       THEN /\ UNCHANGED <<drawing, ctx, undoStack, hist>>
            /\ Note(e, FALSE, "none")
            /\ PhaseKeep
       ELSE /\ drawing' = FALSE
            /\ ctx' = [ctx EXCEPT !.path = closePath(@)]
            /\ undoStack' = saveState(undoStack, bitmap, ok)
            /\ hist' = IF ok THEN Append(hist, toDataURL(bitmap)) ELSE hist
            /\ Note(e, ~ok, "none")
            /\ IF phase = "strokes" /\ ok
               THEN phase' = phase /\ after' = Append(after, bitmap)
                    /\ nUndos' = nUndos
               ELSE PhaseOff
    /\ UNCHANGED <<inited, last, tool, brushColor, brushSize, resizeTimer,
                   bitmap, pending, download>>
    /\ clr' = NoClr
    /\ UNCHANGED timeVars

\* An event no branch of its handler acts on.
Ignored(e) ==
    /\ UNCHANGED <<progVars, hist>>
    /\ Note(e, FALSE, "none")
    /\ PhaseKeep
    /\ clr' = NoClr
    /\ UNCHANGED timeVars

\* Mutant of PointerCancel: no listener for pointercancel.
PointerCancelUnwired == Ignored("pointercancel")

PointerUp == \E ok \in BOOLEAN : StopDrawing("pointerup", ok)
PointerCancel == \E ok \in BOOLEAN : StopDrawing("pointercancel", ok)

\* ------------------------------------------------------------------ undo
undo(e) ==
    /\ IF UndoIsNoop(undoStack)
       THEN /\ UNCHANGED <<undoStack, pending, hist>>
            /\ PhaseKeep
            /\ clr' = NoClr
       ELSE /\ Len(pending) < MaxPending
            /\ undoStack' = Pop(undoStack)
            /\ pending' = Append(pending,
                   [kind |-> "undo", src |-> Top(Pop(undoStack))])
            /\ hist' = Pop(hist)
            /\ IF phase \in {"strokes", "undos"} /\ ~drawing /\ pending = <<>>
               THEN phase' = "undoing" /\ after' = after
                    /\ nUndos' = nUndos + 1
               ELSE PhaseOff
            /\ clr' = IF clr[1] = 1 THEN <<2, clr[2], clr[3]>> ELSE NoClr
    /\ UNCHANGED <<inited, drawing, last, tool, brushColor, brushSize,
                   resizeTimer, bitmap, ctx, download>>
    /\ Note(e, FALSE, "none")
    /\ UNCHANGED timeVars

UndoClick == undo("undoClick")

\* The onload of an Image created by undo() or by setCanvasSize(); an Image
\* whose src is undefined never loads.
ImgLoad(i) ==
    /\ i \in 1 .. Len(pending)
    /\ pending[i].src # "undefined"
    /\ bitmap' = IF pending[i].kind = "undo"
                 THEN drawImage(ctx, clearRect(bitmap), decode(pending[i].src))
                 ELSE drawImage(ctx, bitmap, decode(pending[i].src))
    /\ pending' = RemoveAt(pending, i)
    /\ UNCHANGED <<inited, drawing, last, tool, brushColor, brushSize,
                   undoStack, resizeTimer, ctx, download>>
    /\ Note("load", FALSE, "none")
    /\ hist' = hist
    /\ IF phase = "undoing"
       THEN phase' = "undos" /\ UNCHANGED <<after, nUndos>>
       ELSE PhaseOff
    /\ clr' = IF clr[1] = 2 THEN <<3, clr[2], clr[3]>> ELSE NoClr
    /\ UNCHANGED timeVars

\* ----------------------------------------------------------- clearCanvas
clearCanvas(e, ok, answer) ==
    LET bm == fillRect(ctx, clearRect(bitmap), "white")
    IN  /\ bitmap' = bm
        /\ undoStack' = saveState(undoStack, bm, ok)
        /\ hist' = IF ok THEN Append(hist, toDataURL(bm)) ELSE hist
        /\ UNCHANGED <<inited, drawing, last, tool, brushColor, brushSize,
                       resizeTimer, ctx, pending, download>>
        /\ Note(e, ~ok, answer)
        /\ PhaseOff
        /\ clr' = IF ~drawing /\ pending = <<>> /\ ok
                  THEN <<1, bitmap, undoStack>> ELSE NoClr
        /\ UNCHANGED timeVars

ClearClick(answer, ok) ==
    IF answer = "yes"
    THEN clearCanvas("clearClick", ok, answer)
    ELSE /\ UNCHANGED <<progVars, hist>>
         /\ Note("clearClick", FALSE, answer)
         /\ PhaseKeep
         /\ clr' = NoClr
         /\ UNCHANGED timeVars

\* ------------------------------------------------------------- saveImage
\* Mutant of saveImage: the export ends the stroke in progress.
saveImageEndsStroke(e, ok) ==
    /\ download' = IF ok THEN toDataURL(bitmap) ELSE download
    /\ drawing' = FALSE
    /\ UNCHANGED <<inited, last, tool, brushColor, brushSize,
                   undoStack, resizeTimer, bitmap, ctx, pending>>
    /\ Note(e, ~ok, "none")
    /\ hist' = hist
    /\ PhaseKeep
    /\ clr' = NoClr
    /\ UNCHANGED timeVars

saveImage(e, ok) ==
    /\ download' = IF ok THEN toDataURL(bitmap) ELSE download
    /\ UNCHANGED <<inited, drawing, last, tool, brushColor, brushSize,
                   undoStack, resizeTimer, bitmap, ctx, pending>>
    /\ Note(e, ~ok, "none")
    /\ hist' = hist
    /\ PhaseKeep
    /\ clr' = NoClr
    /\ UNCHANGED timeVars

SaveClick == \E ok \in BOOLEAN : saveImage("saveClick", ok)

\* --------------------------------------------------------------- toolbar
setTool(e, t) ==
    /\ tool' = t
    /\ UNCHANGED <<inited, drawing, last, brushColor, brushSize, undoStack,
                   resizeTimer, bitmap, ctx, pending, download>>
    /\ Note(e, FALSE, "none")
    /\ hist' = hist
    /\ PhaseKeep
    /\ clr' = NoClr
    /\ UNCHANGED timeVars

PenClick == setTool("penClick", "pen")
EraserClick == setTool("eraserClick", "eraser")

ColorInput(c) ==
    /\ brushColor' = c
    /\ UNCHANGED <<inited, drawing, last, tool, brushSize, undoStack,
                   resizeTimer, bitmap, ctx, pending, download>>
    /\ Note("colorInput", FALSE, "none")
    /\ hist' = hist
    /\ PhaseKeep
    /\ clr' = NoClr
    /\ UNCHANGED timeVars

SizeInput(n) ==
    /\ brushSize' = n
    /\ UNCHANGED <<inited, drawing, last, tool, brushColor, undoStack,
                   resizeTimer, bitmap, ctx, pending, download>>
    /\ Note("sizeInput", FALSE, "none")
    /\ hist' = hist
    /\ PhaseKeep
    /\ clr' = NoClr
    /\ UNCHANGED timeVars

\* --------------------------------------------------------------- keydown
KeyDown(key) ==
    \/ key = "z" /\ undo("key z")
    \/ key = "c" /\ \E ok \in BOOLEAN : clearCanvas("key c", ok, "none")
    \/ key = "e" /\ setTool("key e", "eraser")
    \/ key = "p" /\ setTool("key p", "pen")
    \/ key = "s" /\ \E ok \in BOOLEAN : saveImage("key s", ok)
    \/ key \notin {"z", "c", "e", "p", "s"} /\ Ignored("key other")

\* ---------------------------------------------------------------- resize
\* History of the resize events: an event arriving less than RESIZE_DELAY
\* after the previous one continues its burst, any other begins a burst.
NoteResize ==
    LET continues == lastResize >= 0 /\ now - lastResize < RESIZE_DELAY
    IN  /\ lastResize' = now
        /\ burstLen' = IF continues THEN burstLen + 1 ELSE 1
        /\ bursts' = IF continues THEN bursts ELSE bursts + 1
        /\ UNCHANGED <<now, runs>>

\* Mutant of ResizeEvent: a timeout already armed is left as it is.
ResizeEventNoRearm ==
    /\ resizeTimer' = TRUE
    /\ due' = IF resizeTimer THEN due ELSE now + RESIZE_DELAY
    /\ UNCHANGED <<inited, drawing, last, tool, brushColor, brushSize,
                   undoStack, bitmap, ctx, pending, download>>
    /\ Note("resize", FALSE, "none")
    /\ hist' = hist
    /\ PhaseOff
    /\ clr' = NoClr
    /\ NoteResize

\* clearTimeout(resizeTimer); resizeTimer = setTimeout(..., 150)
ResizeEvent ==
    /\ resizeTimer' = TRUE
    /\ due' = now + RESIZE_DELAY
    /\ UNCHANGED <<inited, drawing, last, tool, brushColor, brushSize,
                   undoStack, bitmap, ctx, pending, download>>
    /\ Note("resize", FALSE, "none")
    /\ hist' = hist
    /\ PhaseOff
    /\ clr' = NoClr
    /\ NoteResize

\* The timeout of line 173 fires: setCanvasSize().
setCanvasSize(ok) ==
    /\ IF ok
       THEN /\ Len(pending) < MaxPending
            /\ bitmap' = Blank
            /\ ctx' = [DefaultCtx EXCEPT !.scaled = TRUE]
            /\ pending' = Append(pending,
                   [kind |-> "resize", src |-> toDataURL(bitmap)])
       ELSE UNCHANGED <<bitmap, ctx, pending>>
    /\ Note("resizeTimeout", ~ok, "none")

\* Mutant of ResizeTimeout: the resize pushes a snapshot.
ResizeTimeoutPushes ==
    /\ resizeTimer
    /\ resizeTimer' = FALSE
    /\ \E ok \in BOOLEAN : setCanvasSize(ok)
    /\ undoStack' = Push(undoStack, toDataURL(bitmap))
    /\ UNCHANGED <<inited, drawing, last, tool, brushColor, brushSize,
                   download>>
    /\ hist' = hist
    /\ PhaseOff
    /\ clr' = NoClr
    /\ due' = 0
    /\ runs' = runs + 1
    /\ UNCHANGED <<now, lastResize, burstLen, bursts>>

ResizeTimeout ==
    /\ resizeTimer
    /\ resizeTimer' = FALSE
    /\ \E ok \in BOOLEAN : setCanvasSize(ok)
    /\ UNCHANGED <<inited, drawing, last, tool, brushColor, brushSize,
                   undoStack, download>>
    /\ hist' = hist
    /\ PhaseOff
    /\ clr' = NoClr
    /\ due' = 0
    /\ runs' = runs + 1
    /\ UNCHANGED <<now, lastResize, burstLen, bursts>>

\* ------------------------------------------------------------------ time
\* The armed timeout's delay has elapsed: its callback runs before time
\* moves on and before any later event is dispatched.
TimeoutDue == resizeTimer /\ now >= due

\* Time passes, a third of the timeout's delay at a time.
Quantum == RESIZE_DELAY \div 3

Tick ==
    /\ now < MaxTime
    /\ ~TimeoutDue
    /\ now' = now + Quantum
    /\ UNCHANGED <<progVars, histVars, due, lastResize, burstLen, bursts, runs>>

\* ------------------------------------------------------------------ Next
\* Input is processed from the first animation frame on, when initCanvas
\* has run.  Spec: every handler, runs of at most MaxEvents events.  Time is
\* left out of it (now stays 0): an armed timeout fires at any step.
Next ==
    /\ clock < MaxEvents
    /\ clock' = clock + 1
    /\ \/ \E ok \in BOOLEAN : InitCanvas(ok)
       \/ inited /\ \E p \in Pixels : StartDrawing(p)
       \/ inited /\ \E p \in Pixels : Draw(p)
       \/ inited /\ PointerUp
       \/ inited /\ PointerCancel
       \/ inited /\ UndoClick
       \/ inited /\ \E i \in 1 .. Len(pending) : ImgLoad(i)
       \/ inited /\ \E a \in {"yes", "no"}, ok \in BOOLEAN : ClearClick(a, ok)
       \/ inited /\ SaveClick
       \/ inited /\ PenClick
       \/ inited /\ EraserClick
       \/ inited /\ \E c \in Colors : ColorInput(c)
       \/ inited /\ \E n \in Sizes : SizeInput(n)
       \/ inited /\ \E key \in Keys : KeyDown(key)
       \/ inited /\ ResizeEvent
       \/ inited /\ ResizeTimeout

Spec == Init /\ [][Next]_vars

\* SpecUndo: strokes with either tool, clear and undo, every toDataURL
\* succeeding; runs of at most MaxSession events.
NextUndo ==
    /\ clock < MaxSession
    /\ clock' = clock + 1
    /\ \/ InitCanvas(TRUE)
       \/ inited /\ \E p \in Pixels : StartDrawing(p)
       \/ inited /\ \E p \in Pixels : Draw(p)
       \/ inited /\ StopDrawing("pointerup", TRUE)
       \/ inited /\ PenClick
       \/ inited /\ EraserClick
       \/ inited /\ ClearClick("yes", TRUE)
       \/ inited /\ UndoClick
       \/ inited /\ \E i \in 1 .. Len(pending) : ImgLoad(i)

SpecUndo == Init /\ [][NextUndo]_vars

\* SpecStyle: strokes and the toolbar only.
NextStyle ==
    /\ clock < MaxSession
    /\ clock' = clock + 1
    /\ \/ InitCanvas(TRUE)
       \/ inited /\ \E p \in Pixels : StartDrawing(p)
       \/ inited /\ \E p \in Pixels : Draw(p)
       \/ inited /\ StopDrawing("pointerup", TRUE)
       \/ inited /\ PenClick
       \/ inited /\ EraserClick
       \/ inited /\ \E c \in Colors : ColorInput(c)
       \/ inited /\ \E n \in Sizes : SizeInput(n)

SpecStyle == Init /\ [][NextStyle]_vars

\* SpecDeep: pen strokes from pixel 1 (extended to pixel 2 or not) and undo,
\* past the stack's capacity.  Every toDataURL succeeds, no move or
\* pointer-up arrives outside a stroke, an image's decode completes before
\* the next input event, and at most MaxStrokes snapshots beyond the
\* baseline are live.
NextDeep ==
    /\ clock' = clock
    /\ \/ InitCanvas(TRUE)
       \/ inited /\ pending = <<>> /\ Len(hist) <= MaxStrokes /\ StartDrawing(1)
       \/ inited /\ pending = <<>> /\ drawing /\ Draw(2)
       \/ inited /\ pending = <<>> /\ drawing /\ StopDrawing("pointerup", TRUE)
       \/ inited /\ pending = <<>> /\ UndoClick
       \/ inited /\ ImgLoad(1)

SpecDeep == Init /\ [][NextDeep]_vars

\* SpecFair: strokes with either tool and undo, every toDataURL succeeding,
\* at most MaxFair input events.  The browser decodes every image whose src
\* was set and then runs its onload: a pending load is not counted as an
\* input event and is taken eventually.
LoadStep ==
    /\ clock' = clock
    /\ \E i \in 1 .. Len(pending) : ImgLoad(i)

NextFair ==
    \/ /\ clock < MaxFair
       /\ clock' = clock + 1
       /\ \/ InitCanvas(TRUE)
          \/ inited /\ \E p \in Pixels : StartDrawing(p)
          \/ inited /\ \E p \in Pixels : Draw(p)
          \/ inited /\ StopDrawing("pointerup", TRUE)
          \/ inited /\ EraserClick
          \/ inited /\ UndoClick
    \/ inited /\ LoadStep

SpecFair == Init /\ [][NextFair]_vars /\ WF_vars(LoadStep)

\* SpecResize: resize events in time.  At most MaxSession resize events (and
\* initCanvas) up to time MaxTime; a timeout that is due runs first.
NextResize ==
    \/ /\ clock < MaxSession
       /\ clock' = clock + 1
       /\ ~TimeoutDue
       /\ \/ InitCanvas(TRUE)
          \/ inited /\ ResizeEvent
    \/ /\ clock' = clock
       /\ inited
       /\ TimeoutDue
       /\ ResizeTimeout
    \/ inited /\ ~TimeoutDue /\ LoadStep
    \/ Tick

SpecResize == Init /\ [][NextResize]_vars


\* ================================================================ claims

\* C1: from the initialized state, after N completed strokes with no undo or
\* clear in between, the undo stack holds min(N + 1, 20) snapshots
\* (Len(after) = N + 1 in phase "strokes").
C1_StackLength ==
    phase = "strokes" => Len(undoStack) = Min(Len(after), UNDO_MAX)

C1_Witness ==
    /\ phase = "strokes"
    /\ ~drawing
    /\ Len(after) = MaxStrokes + 1
    /\ Len(undoStack) = UNDO_MAX

\* C2: after k <= 19 strokes from the baseline and then j <= k undos, each
\* decoded before the next operation, the canvas shows the content that
\* existed after stroke k - j.
C2_UndoRestores ==
    (phase = "undos" /\ Len(after) <= UNDO_MAX)
        => bitmap = after[Len(after) - nUndos]

\* C3: beginStroke (pointerdown) pushes a snapshot of the canvas onto the
\* undo stack before the stroke draws anything.
C3_PreStrokeSnapshot ==
    [][ev' = "pointerdown" => undoStack' = Push(undoStack, toDataURL(bitmap))]_vars

\* C4: the undo stack never holds more than 20 snapshots and is always the
\* newest end, in push order, of the snapshots pushed and not undone; after N
\* strokes and j popping undos it holds min(N + 1, 20) - j of them, the last
\* being the snapshot taken after stroke N - j, and at most 19 undos pop.
C4_BoundedFifo ==
    /\ Len(undoStack) <= UNDO_MAX
    /\ Len(undoStack) <= Len(hist)
    /\ undoStack = SubSeq(hist, Len(hist) - Len(undoStack) + 1, Len(hist))
    /\ phase \in {"strokes", "undoing", "undos"} =>
           /\ nUndos < UNDO_MAX
           /\ Len(undoStack) = Min(Len(after), UNDO_MAX) - nUndos
           /\ Top(undoStack) = toDataURL(after[Len(after) - nUndos])

\* 25 strokes, 19 undos and one more undo: one snapshot is left, the one
\* taken after stroke 6, which differs from the baseline.
C4_Witness ==
    /\ phase = "undos"
    /\ ev = "undoClick"
    /\ pending = <<>>
    /\ Len(after) = MaxStrokes + 1
    /\ nUndos = UNDO_MAX - 1
    /\ Len(undoStack) = 1
    /\ Top(undoStack) = toDataURL(after[MaxStrokes + 2 - UNDO_MAX])
    /\ Top(undoStack) # toDataURL(after[1])

\* C5: once initCanvas has run the undo stack is never empty.
C5_NeverEmpty == inited => Len(undoStack) >= 1

\* C6: undo with at most one snapshot on the stack changes nothing: not the
\* stack, the canvas, the stroke or tool state, and no image load is started.
C6_UndoAtBaselineIsNoop ==
    [][(ev' \in {"undoClick", "key z"} /\ Len(undoStack) <= 1)
           => UNCHANGED progVars]_vars

C6_Witness ==
    /\ inited
    /\ ev \in {"undoClick", "key z"}
    /\ Len(undoStack) <= 1
    /\ pending = <<>>

\* C7: clear() on an idle canvas with no decode in flight, then undo() and
\* its decode, restore the canvas and the stack to what they were before the
\* clear.
C7_ClearThenUndo ==
    clr[1] = 3 => (bitmap = clr[2] /\ undoStack = clr[3])

\* C8: a pointer move of a stroke changes only the pixels of the segment it
\* adds (from the last point to the new one, at the current width): what
\* earlier segments of the stroke painted stays as it was painted.
C8_EarlierSegmentsKeep ==
    [][(ev' = "pointermove" /\ drawing)
           => \A x \in Pixels \ Covered(last, last', brushSize, ctx.lineCap) :
                  bitmap'[x] = bitmap[x]]_vars

\* C9: a clear event changes the canvas or the history only after the user
\* answered yes to the confirmation.
C9_ClearNeedsConfirmation ==
    [][(ev' \in {"clearClick", "key c"}
            /\ (bitmap' # bitmap \/ undoStack' # undoStack))
           => prompt' = "yes"]_vars

\* C10: pointercancel and pointerup alike end the stroke: from Drawing the
\* state becomes Idle and (unless toDataURL throws) one snapshot of the canvas
\* is pushed, nothing else changing but the path being closed; when Idle
\* neither changes anything.
C10_CancelLikeUp ==
    [][ev' \in {"pointerup", "pointercancel"} =>
           /\ ~drawing'
           /\ IF drawing
              THEN /\ thrown' => undoStack' = undoStack
                   /\ ~thrown' =>
                          /\ Top(undoStack') = toDataURL(bitmap)
                          /\ Len(undoStack') = Min(Len(undoStack) + 1, UNDO_MAX)
                   /\ UNCHANGED <<inited, last, tool, brushColor, brushSize,
                                  resizeTimer, bitmap, pending, download>>
              ELSE UNCHANGED progVars]_vars

\* init, pointerdown, pointercancel: the stroke is finalized.
C10_Witness ==
    /\ ev = "pointercancel"
    /\ clock = 3
    /\ ~drawing
    /\ Len(undoStack) = 2

\* C11: a pointermove, pointerup or pointercancel arriving while no stroke is
\* in progress changes neither the canvas, the undo stack, the drawing flag
\* nor the last point, and nothing is thrown.
C11_StrayMoveAndUpIgnored ==
    [][(ev' \in {"pointermove", "pointerup", "pointercancel"} /\ ~drawing)
           => /\ UNCHANGED <<bitmap, undoStack, drawing, last>>
              /\ ~thrown']_vars

\* A stroke was drawn and ended, then a move arrived.
C11_Witness ==
    /\ ev = "pointermove"
    /\ ~drawing
    /\ last # 0
    /\ Len(undoStack) = 2

\* C12: neither the resize event, nor setCanvasSize when the timeout fires,
\* nor the load of an image changes the undo stack.
C12_ResizeKeepsStack ==
    [][ev' \in {"resize", "resizeTimeout", "load"}
           => undoStack' = undoStack]_vars

\* init, resize, the timeout, the load of the image it started.
C12_Witness ==
    /\ ev = "load"
    /\ clock = 4
    /\ ctx.lineCap = "butt"
    /\ pending = <<>>
    /\ Len(undoStack) = 1

\* C13: the export changes neither the canvas, the undo stack, the stroke
\* state, the tool, colour or width, nor the context or the pending loads.
C13_ExportIsPureRead ==
    [][ev' \in {"saveClick", "key s"}
           => UNCHANGED <<bitmap, undoStack, drawing, last, tool, brushColor,
                          brushSize, ctx, pending>>]_vars

\* An export in the middle of a stroke.
C13_Witness ==
    /\ ev \in {"saveClick", "key s"}
    /\ drawing
    /\ Len(ctx.path) >= 2
    /\ ~thrown

\* C14: whenever no stroke is in progress and no image load started by undo
\* or by a resize is pending, the canvas shows the snapshot at the tail of the
\* undo stack.
C14_IdleSurfaceIsTailSnapshot ==
    (inited /\ ~drawing /\ pending = <<>>)
        => (Len(undoStack) >= 1 /\ Top(undoStack) = toDataURL(bitmap))

\* C15: the resize timeout firing while an image load started by undo or by
\* an earlier resize is pending does nothing: the canvas is not reallocated
\* and no further load is started.
C15_ResizeDuringDecodeIgnored ==
    [][(ev' = "resizeTimeout" /\ pending # <<>>)
           => UNCHANGED <<bitmap, ctx, pending>>]_vars

\* C18: when toDataURL throws inside saveState the undo stack stays as it
\* was, and the caller's other effects still happen: stopDrawing leaves no
\* stroke in progress and clearCanvas leaves the canvas white.
C18_EncodeFailureIsContained ==
    [][(thrown' /\ ev' \in {"init", "pointerup", "pointercancel",
                             "clearClick", "key c"})
           => /\ undoStack' = undoStack
              /\ ev' \in {"pointerup", "pointercancel"} => ~drawing'
              /\ ev' \in {"clearClick", "key c"}
                     => bitmap' = [x \in Pixels |-> "white"]]_vars

\* C19: a pointerdown is processed only when no stroke is in progress.
C19_StrokeStartsOnlyFromIdle ==
    [][ev' = "pointerdown" => ~drawing]_vars

\* C20: every segment draw() strokes is stroked with round caps and round
\* joins, under the devicePixelRatio scale.
C20_SegmentsRoundAndScaled ==
    [][(ev' = "pointermove" /\ drawing)
           => /\ ctx'.lineCap = "round"
              /\ ctx'.lineJoin = "round"
              /\ ctx'.scaled]_vars

\* C16: an undo called with more than one snapshot on the stack removes
\* exactly the tail and starts the decode of the new tail (with one snapshot
\* or none it removes nothing, so n calls remove min(n, length - 1)); the
\* load of an undo's image repaints the canvas to the snapshot it decoded;
\* and every decode started completes.
C16_UndoPopsThenRepaints ==
    /\ [][ev' \in {"undoClick", "key z"} =>
             IF Len(undoStack) > 1
             THEN /\ undoStack' = Pop(undoStack)
                  /\ pending' = Append(pending,
                         [kind |-> "undo", src |-> Top(undoStack')])
             ELSE UNCHANGED <<undoStack, pending>>]_vars
    /\ [][\A i \in 1 .. Len(pending) :
             (ev' = "load" /\ pending[i].kind = "undo"
                  /\ pending' = RemoveAt(pending, i))
                 => bitmap' = decode(pending[i].src)]_vars
    /\ \A k \in 1 .. MaxPending :
           (Len(pending) = k) ~> (Len(pending) < k)

\* C17: in a burst of resize events, each less than 150 ms after the one
\* before, no setCanvasSize runs until 150 ms after the last event and
\* exactly one has run after that: before that time every burst but the
\* current one has had its one run, and after it every burst has.
C17_DebouncedResize ==
    lastResize >= 0 =>
        /\ now < lastResize + RESIZE_DELAY => runs = bursts - 1
        /\ now = lastResize + RESIZE_DELAY => runs \in {bursts - 1, bursts}
        /\ now > lastResize + RESIZE_DELAY => runs = bursts

\* The second burst, of three events or more spread over time, has just had
\* its run.
C17_Witness ==
    /\ ev = "resizeTimeout"
    /\ bursts = 2
    /\ runs = 2
    /\ burstLen >= 3
    /\ now = lastResize + RESIZE_DELAY
    /\ now >= 3 * RESIZE_DELAY

=============================================================================
